---- MODULE Spec2Model ----
(***************************************************************************)
(* Landslide-monitoring backend: the POST /sensors pipeline of the full    *)
(* server (src/unnamed/part_000): validation, numeric conversion, alert    *)
(* level calculation, reading store write, per-device alert cooldown and   *)
(* SMS fan-out to the device's subscribers; and the POST /alert route with *)
(* its user lookup.                                                        *)
(*                                                                         *)
(* Units.  Time is counted in minutes (the code compares milliseconds      *)
(* against cooldownMinutes * 60 * 1000; both sides are divided by 60000).  *)
(* Vibration is counted in hundredths of g (0.03 g = 3, 0.08 g = 8,        *)
(* 0.20 g = 20).  Date.now() and the Firestore server timestamp are read   *)
(* from one clock, now.                                                    *)
(***************************************************************************)
EXTENDS Integers, Sequences, FiniteSets, TLC

(***************************************************************************)
(* Bounds of the model.                                                    *)
(***************************************************************************)
NumReqs == 2
StartTime == 60
TickMinutes == 15
MaxTicks == 2
NumAlerts == 2

Reqs == 1..NumReqs
Alerts == 1..NumAlerts
MaxTime == StartTime + MaxTicks * TickMinutes

(***************************************************************************)
(* JavaScript values.                                                      *)
(***************************************************************************)
Undefined == [t |-> "undefined"]
JsNull == [t |-> "null"]
NaN == [t |-> "NaN"]
Num(n) == [t |-> "number", n |-> n]
Str(s) == [t |-> "string", s |-> s]

\* Number(v): a number is itself, null and "" are 0, undefined and a
\* non-numeric string are NaN (the strings of the model are "" and "abc").
Number(v) ==
  CASE v.t = "number" -> v
    [] v.t = "null" -> Num(0)
    [] v.t = "string" -> IF v.s = "" THEN Num(0) ELSE NaN
    [] OTHER -> NaN

\* x || 0 on a number: NaN and 0 are falsy.
OrZero(x) == IF x = NaN \/ x = Num(0) THEN Num(0) ELSE x

\* x > c: every comparison with NaN is false.
Gt(x, c) == x.t = "number" /\ x.n > c

\* A string as its sequence of characters.
Chars(cs) == [t |-> "chars", cs |-> cs]

\* phone && phone.startsWith('+'): undefined and "" are falsy.
StartsWithPlus(phone) ==
  /\ phone.t = "chars"
  /\ Len(phone.cs) > 0
  /\ phone.cs[1] = "+"

(***************************************************************************)
(* Alert level calculation (part_000 lines 126-162).                       *)
(***************************************************************************)
Bit(b) == IF b THEN 1 ELSE 0

riskCount(sm1, sm2, sm3, tiltDeg, vibG) ==
  Bit(Gt(sm1, 60)) + Bit(Gt(sm2, 65)) + Bit(Gt(sm3, 65))
    + Bit(Gt(tiltDeg, 2)) + Bit(Gt(vibG, 3))

\* Mutant: tilt with vibration is not a critical condition.
criticalConditionNoTiltVib(sm1, sm2, sm3, tiltDeg, vibG) ==
  \/ (Gt(sm1, 75) /\ Gt(sm2, 80) /\ Gt(sm3, 85))
  \/ (Gt(sm1, 75) /\ Gt(tiltDeg, 5))
  \/ Gt(vibG, 20)

criticalCondition(sm1, sm2, sm3, tiltDeg, vibG) ==
  \/ (Gt(sm1, 75) /\ Gt(sm2, 80) /\ Gt(sm3, 85))
  \/ (Gt(tiltDeg, 5) /\ Gt(vibG, 8))
  \/ (Gt(sm1, 75) /\ Gt(tiltDeg, 5))
  \/ Gt(vibG, 20)

Level1 == [alertLevel |-> 1, alertMessage |-> "Normal but Monitored"]
Level2 == [alertLevel |-> 2, alertMessage |-> "Intermediate Warning"]
Level3 == [alertLevel |-> 3, alertMessage |-> "Critical - Imminent Failure"]

\* Mutant: the soil channels share the 60 % threshold.
AlertLevelUniformThreshold(sm1, sm2, sm3, tiltDeg, vibG) ==
  LET n == Bit(Gt(sm1, 60)) + Bit(Gt(sm2, 60)) + Bit(Gt(sm3, 60))
             + Bit(Gt(tiltDeg, 2)) + Bit(Gt(vibG, 3))
      afterWarning == IF n >= 3 THEN Level2 ELSE Level1
  IN IF criticalCondition(sm1, sm2, sm3, tiltDeg, vibG)
       THEN Level3 ELSE afterWarning

\* Mutant: the warning assignment runs after the critical one.
AlertLevelWarningLast(sm1, sm2, sm3, tiltDeg, vibG) ==
  LET afterCritical == IF criticalCondition(sm1, sm2, sm3, tiltDeg, vibG)
                         THEN Level3 ELSE Level1
  IN IF riskCount(sm1, sm2, sm3, tiltDeg, vibG) >= 3
       THEN Level2 ELSE afterCritical

\* The assignments in program order: Level 1, then Level 2 when at least
\* three indicators hold, then Level 3 when a critical condition holds.
AlertLevel(sm1, sm2, sm3, tiltDeg, vibG) ==
  LET start == Level1
      afterWarning == IF riskCount(sm1, sm2, sm3, tiltDeg, vibG) >= 3
                        THEN Level2 ELSE start
      afterCritical == IF criticalCondition(sm1, sm2, sm3, tiltDeg, vibG)
                         THEN Level3 ELSE afterWarning
  IN afterCritical

(***************************************************************************)
(* The world of the model: devices, subscriber directories, request bodies.*)
(***************************************************************************)
DefaultDevice == "ESP32_001"
Devices == {DefaultDevice, "D2"}

Phone(chars) == [phoneNumber |-> chars]
PhoneA == Chars(<<"+", "1">>)
PhoneB == Chars(<<"+", "2">>)
PhoneC == Chars(<<"+", "3">>)
PhoneLocal == Chars(<<"0", "9">>)

\* devices/<id>/alert_subscribers, one sequence of documents per device.
Directories ==
  { [d \in Devices |-> IF d = DefaultDevice
                         THEN <<Phone(PhoneA), Phone(PhoneB), Phone(PhoneC)>>
                         ELSE <<>>],
    [d \in Devices |-> IF d = DefaultDevice
                         THEN <<Phone(PhoneLocal), Phone(Undefined)>>
                         ELSE <<Phone(PhoneA)>>],
    [d \in Devices |-> IF d = DefaultDevice
                         THEN <<>>
                         ELSE <<Phone(PhoneA), Phone(PhoneLocal)>>] }

\* users/<uid>: a user with a "+" number, one with a local number, one
\* whose document has no phoneNumber, one whose phoneNumber is the empty
\* string; any other uid has no document.
UserDirectory ==
  [u \in {"u1", "u2", "u3", "u4"} |->
     CASE u = "u1" -> Phone(PhoneA)
       [] u = "u2" -> Phone(PhoneLocal)
       [] u = "u3" -> Phone(Undefined)
       [] OTHER -> Phone(Chars(<<>>))]

Body(dev, s1, s2, s3, tl, vb) ==
  [device_id |-> dev, soil_moisture_1 |-> s1, soil_moisture_2 |-> s2,
   soil_moisture_3 |-> s3, tilt |-> tl, vibration |-> vb]

\* Request bodies: no soil field (tilt 6 degrees, vibration 0.10 g); one
\* soil field present with value 0 (and a null tilt); three indicators and
\* no critical condition (and a non-numeric third soil field); all soil
\* channels very high on the second device; the tilt and vibration of the
\* first body with one soil field of value 0, on the second device; an
\* empty device_id.
BodyNoSoil == Body(Undefined, Undefined, Undefined, Undefined, Num(6), Num(10))
BodyZero == Body(Undefined, Undefined, Num(0), Undefined, JsNull, Undefined)
BodyWarning == Body(Undefined, Num(61), Num(66), Str("abc"), Num(3), Undefined)
BodyCriticalD2 == Body(Str("D2"), Num(80), Num(85), Num(90), Undefined, Undefined)

BodyTiltVib == Body(Str("D2"), Num(0), Undefined, Undefined, Num(6), Num(10))
BodyEmptyId == Body(Str(""), Num(10), Num(20), Num(30), Undefined, Undefined)

Bodies ==
  {BodyNoSoil, BodyZero, BodyWarning, BodyCriticalD2, BodyTiltVib, BodyEmptyId}

\* The device identifiers a reading can be stored under: a device_id is
\* put into the path as it stands.
ReadingPaths == Devices \cup {""}

(***************************************************************************)
(* State.                                                                  *)
(*   now       the clock, in minutes                                       *)
(*   req       each request's position, locals and record of its calls     *)
(*   readings  Realtime Database: sensors/<device>/readings, in push order *)
(*   devices   Firestore: devices/<device>, Undefined or a document        *)
(*   subs      Firestore: devices/<device>/alert_subscribers               *)
(*   devVer    number of committed writes of devices/<device>              *)
(*   calc      the alert level calculation on its own (SpecClassify)       *)
(*   alerts    each POST /alert request's position and locals (SpecAlert)  *)
(*   users     Firestore: users/<uid>                                      *)
(***************************************************************************)
VARIABLES now, req, readings, devices, subs, devVer, calc, alerts, users

vars == <<now, req, readings, devices, subs, devVer, calc, alerts, users>>

NoResp == [status |-> 0]

\* A request: the handler's position and locals, then the record of the
\* calls it has issued (n...), the call that rejected (failed), the elapsed
\* time it saw at the cooldown check (-1: not checked), the time of its
\* dispatch, the document version it read, the version it wrote and when,
\* the number of subscribers listed, the tally of its sends and the number
\* of soil fields its body held, the body itself and whether no other
\* request was in progress when it arrived.  The locals are dropped when it
\* has answered.
IdleReq ==
  [pc |-> "idle", device_id |-> "", reading |-> Undefined,
   alertLevel |-> 0, alertMessage |-> "",
   smsCount |-> 0, deviceSnap |-> Undefined,
   subsSnap |-> <<>>, smsPromises |-> <<>>, resp |-> NoResp,
   nPush |-> 0, nGet |-> 0, nList |-> 0, nSet |-> 0, failed |-> "none",
   elapsed |-> -1, dispatchedAt |-> 0, snapVer |-> 0, setVer |-> 0,
   listed |-> 0, sendsIssued |-> 0, sendsOk |-> 0, sendsFailed |-> 0,
   nSoil |-> -1, setAt |-> 0, body |-> Undefined, alone |-> TRUE]

NoCalc == [phase |-> "off"]

\* A POST /alert request: the handler's position and locals, then the
\* record of the calls it has issued and of the lookup having failed.
IdleAlert ==
  [pc |-> "idle", body |-> Undefined, phone |-> JsNull, resp |-> NoResp,
   nLookup |-> 0, nSend |-> 0, lookupFailed |-> FALSE]

Init ==
  /\ now = StartTime
  /\ req = [r \in Reqs |-> IdleReq]
  /\ readings = [d \in ReadingPaths |-> <<>>]
  /\ devices = [d \in Devices |-> Undefined]
  /\ subs \in Directories
  /\ devVer = [d \in Devices |-> 0]
  /\ calc = NoCalc
  /\ alerts = [a \in Alerts |-> IdleAlert]
  /\ users = UserDirectory

(***************************************************************************)
(* POST /sensors (part_000 lines 99-254).                                  *)
(***************************************************************************)
Ok200(q) ==
  [status |-> 200, success |-> TRUE, alert_level |-> q.alertLevel,
   alert_message |-> q.alertMessage, sms_sent_count |-> q.smsCount]

Err500 == [status |-> 500, error |-> "Server error"]
Err400 == [status |-> 400, error |-> "Missing all soil_moisture values"]

Count(q, state) ==
  Cardinality({i \in DOMAIN q.smsPromises : q.smsPromises[i] = state})

\* The handler has answered: its locals are gone, the record of what it did
\* stays.
Answered(q, resp) ==
  [q EXCEPT !.pc = "done", !.resp = resp, !.reading = Undefined,
            !.smsCount = 0, !.deviceSnap = Undefined, !.subsSnap = <<>>,
            !.smsPromises = <<>>,
            !.sendsOk = Count(q, "fulfilled"),
            !.sendsFailed = Count(q, "rejected")]

\* device_id = 'ESP32_001' applies to an undefined field only.
DeviceIdOf(body) ==
  IF body.device_id = Undefined THEN DefaultDevice ELSE body.device_id.s

\* tilt = 0, vibration = 0 apply to an undefined field only.
DefaultZero(v) == IF v = Undefined THEN Num(0) ELSE v

\* Mutant: a soil field of value 0 counts as missing.
MissingAllSoilFalsy(body) ==
  /\ OrZero(Number(body.soil_moisture_1)) = Num(0)
  /\ OrZero(Number(body.soil_moisture_2)) = Num(0)
  /\ OrZero(Number(body.soil_moisture_3)) = Num(0)

\* Lines 111-115.
MissingAllSoil(body) ==
  /\ body.soil_moisture_1 = Undefined
  /\ body.soil_moisture_2 = Undefined
  /\ body.soil_moisture_3 = Undefined

\* Lines 119-124 and 165-175: the numbers and the reading object.
Reading(body) ==
  LET sm1 == OrZero(Number(body.soil_moisture_1))
      sm2 == OrZero(Number(body.soil_moisture_2))
      sm3 == OrZero(Number(body.soil_moisture_3))
      tiltDeg == Number(DefaultZero(body.tilt))
      vibG == Number(DefaultZero(body.vibration))
      lvl == AlertLevel(sm1, sm2, sm3, tiltDeg, vibG)
  IN [device_id |-> DeviceIdOf(body), soil_moisture_1 |-> sm1,
      soil_moisture_2 |-> sm2, soil_moisture_3 |-> sm3,
      tilt |-> tiltDeg, vibration |-> vibG,
      alert_level |-> lvl.alertLevel, alert_message |-> lvl.alertMessage]

SoilFields(body) ==
  Bit(body.soil_moisture_1 # Undefined) + Bit(body.soil_moisture_2 # Undefined)
    + Bit(body.soil_moisture_3 # Undefined)

\* No other request is between its arrival and its answer.
NoneInProgress(r) == \A p \in Reqs \ {r} : req[p].pc \in {"idle", "done"}

\* Lines 101-178: destructuring, validation, conversion, alert level, and
\* the push of the reading is issued.  Requests are numbered in their order
\* of arrival.
Receive(r, body) ==
  /\ req[r].pc = "idle"
  /\ \A p \in Reqs : p < r => req[p].pc # "idle"
  /\ IF MissingAllSoil(body)
       THEN req' = [req EXCEPT ![r] =
                      Answered([@ EXCEPT !.device_id = DeviceIdOf(body),
                                         !.nSoil = SoilFields(body),
                                         !.body = body,
                                         !.alone = NoneInProgress(r)],
                               Err400)]
       ELSE req' = [req EXCEPT ![r] =
                      [@ EXCEPT !.pc = "push",
                                !.device_id = DeviceIdOf(body),
                                !.nSoil = SoilFields(body),
                                !.body = body,
                                !.alone = NoneInProgress(r),
                                !.reading = Reading(body),
                                !.alertLevel = Reading(body).alert_level,
                                !.alertMessage = Reading(body).alert_message,
                                !.nPush = @ + 1]]
  /\ UNCHANGED <<now, readings, devices, subs, devVer, calc, alerts, users>>

\* Mutant: the cooldown gate is consulted for every level.
NeedsAlertAlways(level) == level >= 1

\* Line 184.
NeedsAlert(level) == level >= 2

\* Mutant: the push resolves without the reading having been stored.
StoreDropped(log, reading) == log

\* Line 178: push appends to the device's list.
Store(log, reading) == Append(log, reading)

\* Lines 178-187 and 243-248: the push resolved; a normal reading is
\* answered at once, otherwise the device document is requested.
PushResolve(r) ==
  /\ req[r].pc = "push"
  /\ readings' = [readings EXCEPT ![req[r].device_id] =
                    Store(@, req[r].reading)]
  /\ IF NeedsAlert(req[r].alertLevel)
       THEN req' = [req EXCEPT ![r] = [@ EXCEPT !.pc = "get", !.nGet = @ + 1]]
       ELSE req' = [req EXCEPT ![r] = Answered(@, Ok200(@))]
  /\ UNCHANGED <<now, devices, subs, devVer, calc, alerts, users>>

\* Lines 250-253: an awaited call rejected.
Reject(r, at) ==
  /\ req[r].pc = at
  /\ req' = [req EXCEPT ![r] = Answered([@ EXCEPT !.failed = at], Err500)]
  /\ UNCHANGED <<now, readings, devices, subs, devVer, calc, alerts, users>>

\* Mutant: a failed push is logged and the handler carries on.
PushRejectIgnored(r) ==
  /\ req[r].pc = "push"
  /\ IF NeedsAlert(req[r].alertLevel)
       THEN req' = [req EXCEPT ![r] =
                      [@ EXCEPT !.pc = "get", !.nGet = @ + 1,
                                !.failed = "push"]]
       ELSE req' = [req EXCEPT ![r] =
                      Answered([@ EXCEPT !.failed = "push"], Ok200(@))]
  /\ UNCHANGED <<now, readings, devices, subs, devVer, calc, alerts, users>>

PushReject(r) == Reject(r, "push")

\* Line 187: Firestore serves the read of devices/<device>.
DeviceGetResolve(r) ==
  /\ req[r].pc = "get"
  /\ req' = [req EXCEPT ![r] =
               [@ EXCEPT !.pc = "gate",
                         !.deviceSnap = devices[req[r].device_id],
                         !.snapVer = devVer[req[r].device_id]]]
  /\ UNCHANGED <<now, readings, devices, subs, devVer, calc, alerts, users>>

\* Mutant: a failed read of the alert state counts as no record.
DeviceGetRejectTolerated(r) ==
  /\ req[r].pc = "get"
  /\ req' = [req EXCEPT ![r] =
               [@ EXCEPT !.pc = "gate", !.deviceSnap = Undefined,
                         !.failed = "get"]]
  /\ UNCHANGED <<now, readings, devices, subs, devVer, calc, alerts, users>>

\* Line 187 rejected.
DeviceGetReject(r) == Reject(r, "get")

\* Mutant: the record of the last alert is not looked at.
LastAlertIgnored(snap) == 0

\* Line 188: deviceSnap.data()?.lastAlertSent?.toMillis() || 0.
LastAlertOf(snap) == IF snap = Undefined THEN 0 ELSE snap.lastAlertSent

\* Line 190.
cooldownMinutes == 15

\* Mutant: the window is compared with <=.
CoolingInclusive(t, lastAlert) == t - lastAlert <= cooldownMinutes

\* Mutant: the cooldown is never in force.
CoolingNever(t, lastAlert) == FALSE

\* Line 191.
Cooling(t, lastAlert) == t - lastAlert < cooldownMinutes

\* Lines 188-199 and 243-248: the cooldown check; a skipped alert is
\* answered at once, otherwise the subscribers are requested.
GateCheck(r) ==
  /\ req[r].pc = "gate"
  /\ LET lastAlert == LastAlertOf(req[r].deviceSnap)
     IN IF Cooling(now, lastAlert)
          THEN req' = [req EXCEPT ![r] =
                         Answered([@ EXCEPT !.elapsed = now - lastAlert],
                                  Ok200(@))]
          ELSE req' = [req EXCEPT ![r] =
                         [@ EXCEPT !.pc = "list",
                                   !.elapsed = now - lastAlert,
                                   !.nList = @ + 1]]
  /\ UNCHANGED <<now, readings, devices, subs, devVer, calc, alerts, users>>

\* Mutant: an empty subscriber list is handled like any other.
HasSubscribersAlways(snap) == TRUE

\* Line 201: !subsSnap.empty.
HasSubscribers(snap) == Len(snap) > 0

\* Mutant: every subscriber with a phone number is eligible.
EligibleAnyPhone(sub) == sub.phoneNumber.t = "chars"

\* Line 208.
Eligible(sub) == StartsWithPlus(sub.phoneNumber)

\* Lines 199-230 and 236-248: the subscriber list arrived.  An empty list
\* is logged and answered; otherwise one send is created per eligible
\* subscriber and all of them are awaited together.
SubsResolve(r) ==
  /\ req[r].pc = "list"
  /\ LET snap == subs[req[r].device_id]
         promises == [i \in 1..Len(snap) |->
                        IF Eligible(snap[i]) THEN "pending" ELSE "none"]
     IN IF HasSubscribers(snap)
          THEN req' = [req EXCEPT ![r] =
                         [@ EXCEPT !.pc = "sending", !.subsSnap = snap,
                                   !.listed = Len(snap),
                                   !.dispatchedAt = now,
                                   !.smsPromises = promises,
                                   !.sendsIssued =
                                      Cardinality({i \in 1..Len(snap) :
                                                     promises[i] = "pending"})]]
          ELSE req' = [req EXCEPT ![r] =
                         Answered([@ EXCEPT !.dispatchedAt = now], Ok200(@))]
  /\ UNCHANGED <<now, readings, devices, subs, devVer, calc, alerts, users>>

SubsReject(r) == Reject(r, "list")

\* Mutant: the counter is not advanced.
SendResolveUncounted(r, i) ==
  /\ req[r].pc = "sending"
  /\ i \in DOMAIN req[r].smsPromises
  /\ req[r].smsPromises[i] = "pending"
  /\ req' = [req EXCEPT ![r] = [@ EXCEPT !.smsPromises[i] = "fulfilled"]]
  /\ UNCHANGED <<now, readings, devices, subs, devVer, calc, alerts, users>>

\* Lines 219-222: a send succeeded.
SendResolve(r, i) ==
  /\ req[r].pc = "sending"
  /\ i \in DOMAIN req[r].smsPromises
  /\ req[r].smsPromises[i] = "pending"
  /\ req' = [req EXCEPT ![r] =
               [@ EXCEPT !.smsPromises[i] = "fulfilled",
                         !.smsCount = @ + 1]]
  /\ UNCHANGED <<now, readings, devices, subs, devVer, calc, alerts, users>>

\* Mutant: a failed send rejects Promise.all and the request with it.
SendRejectFailFast(r, i) ==
  /\ req[r].pc = "sending"
  /\ i \in DOMAIN req[r].smsPromises
  /\ req[r].smsPromises[i] = "pending"
  /\ req' = [req EXCEPT ![r] =
               Answered([@ EXCEPT !.smsPromises[i] = "rejected",
                                  !.failed = "send"], Err500)]
  /\ UNCHANGED <<now, readings, devices, subs, devVer, calc, alerts, users>>

\* Mutant: a failed send is attempted again.
SendRejectRetried(r, i) ==
  /\ req[r].pc = "sending"
  /\ i \in DOMAIN req[r].smsPromises
  /\ req[r].smsPromises[i] = "pending"
  /\ req[r].sendsIssued < 6
  /\ req' = [req EXCEPT ![r] = [@ EXCEPT !.sendsIssued = @ + 1]]
  /\ UNCHANGED <<now, readings, devices, subs, devVer, calc, alerts, users>>

\* Lines 223-225: a send failed; the failure is logged and swallowed.
SendReject(r, i) ==
  /\ req[r].pc = "sending"
  /\ i \in DOMAIN req[r].smsPromises
  /\ req[r].smsPromises[i] = "pending"
  /\ req' = [req EXCEPT ![r] = [@ EXCEPT !.smsPromises[i] = "rejected"]]
  /\ UNCHANGED <<now, readings, devices, subs, devVer, calc, alerts, users>>

Settled(q) == \A i \in DOMAIN q.smsPromises : q.smsPromises[i] # "pending"

\* Mutant: the handler goes on as soon as one send has settled.
PromiseAllResolveAny(r) ==
  /\ req[r].pc = "sending"
  /\ \/ Settled(req[r])
     \/ \E i \in DOMAIN req[r].smsPromises :
          req[r].smsPromises[i] \in {"fulfilled", "rejected"}
  /\ req' = [req EXCEPT ![r] = [@ EXCEPT !.pc = "set", !.nSet = @ + 1]]
  /\ UNCHANGED <<now, readings, devices, subs, devVer, calc, alerts, users>>

\* Lines 230-235: Promise.all resolved; the write of lastAlertSent is issued.
PromiseAllResolve(r) ==
  /\ req[r].pc = "sending"
  /\ Settled(req[r])
  /\ req' = [req EXCEPT ![r] = [@ EXCEPT !.pc = "set", !.nSet = @ + 1]]
  /\ UNCHANGED <<now, readings, devices, subs, devVer, calc, alerts, users>>

\* Mutant: the write stores the value the request read.
ServerTimestampStale(r) == req[r].dispatchedAt - req[r].elapsed

\* Line 234: FieldValue.serverTimestamp().
ServerTimestamp(r) == now

\* Lines 233-235 and 243-248: the write committed with the server's time.
SetResolve(r) ==
  /\ req[r].pc = "set"
  /\ devices' = [devices EXCEPT ![req[r].device_id] =
                   [lastAlertSent |-> ServerTimestamp(r)]]
  /\ devVer' = [devVer EXCEPT ![req[r].device_id] = @ + 1]
  /\ req' = [req EXCEPT ![r] =
               Answered([@ EXCEPT !.setVer = devVer[req[r].device_id] + 1,
                                  !.setAt = now],
                        Ok200(@))]
  /\ UNCHANGED <<now, readings, subs, calc, alerts, users>>

SetReject(r) == Reject(r, "set")

\* Time passes.
Tick ==
  /\ now < MaxTime
  /\ now' = now + TickMinutes
  /\ UNCHANGED <<req, readings, devices, subs, devVer, calc, alerts, users>>

Next ==
  \/ \E r \in Reqs : \E body \in Bodies : Receive(r, body)
  \/ \E r \in Reqs : PushResolve(r)
  \/ \E r \in Reqs : PushReject(r)
  \/ \E r \in Reqs : DeviceGetResolve(r)
  \/ \E r \in Reqs : DeviceGetReject(r)
  \/ \E r \in Reqs : GateCheck(r)
  \/ \E r \in Reqs : SubsResolve(r)
  \/ \E r \in Reqs : SubsReject(r)
  \/ \E r \in Reqs : \E i \in 1..3 : SendResolve(r, i)
  \/ \E r \in Reqs : \E i \in 1..3 : SendReject(r, i)
  \/ \E r \in Reqs : PromiseAllResolve(r)
  \/ \E r \in Reqs : SetResolve(r)
  \/ \E r \in Reqs : SetReject(r)
  \/ Tick

Spec == Init /\ [][Next]_vars

(***************************************************************************)
(* The alert level calculation on its own: a reading is drawn, classified, *)
(* and then any one of its values is raised and it is classified again.    *)
(***************************************************************************)
Sm1Values == {Num(0), Num(60), Num(61), Num(75), Num(76)}
Sm2Values == {Num(0), Num(65), Num(66), Num(80), Num(81)}
Sm3Values == {Num(0), Num(65), Num(66), Num(85), Num(86)}
TiltValues == {NaN, Num(0), Num(2), Num(3), Num(5), Num(6)}
VibValues == {NaN, Num(0), Num(3), Num(4), Num(8), Num(9), Num(20), Num(21)}

Channels == {"sm1", "sm2", "sm3", "tiltDeg", "vibG"}

ValuesOf(ch) ==
  CASE ch = "sm1" -> Sm1Values
    [] ch = "sm2" -> Sm2Values
    [] ch = "sm3" -> Sm3Values
    [] ch = "tiltDeg" -> TiltValues
    [] OTHER -> VibValues

NotClassified == [alertLevel |-> 0, alertMessage |-> ""]

CalcInputs ==
  [phase : {"in"}, sm1 : Sm1Values, sm2 : Sm2Values, sm3 : Sm3Values,
   tiltDeg : TiltValues, vibG : VibValues, out : {NotClassified}, prev : {0}]

AlertLevelOf(c) == AlertLevel(c.sm1, c.sm2, c.sm3, c.tiltDeg, c.vibG)

InitClassify ==
  /\ now = StartTime
  /\ req = [r \in Reqs |-> IdleReq]
  /\ readings = [d \in ReadingPaths |-> <<>>]
  /\ devices = [d \in Devices |-> Undefined]
  /\ subs = [d \in Devices |-> <<>>]
  /\ devVer = [d \in Devices |-> 0]
  /\ calc \in CalcInputs
  /\ alerts = [a \in Alerts |-> IdleAlert]
  /\ users = UserDirectory

Classify ==
  /\ calc.phase = "in"
  /\ calc' = [calc EXCEPT !.phase = "out", !.out = AlertLevelOf(calc)]
  /\ UNCHANGED <<now, req, readings, devices, subs, devVer, alerts, users>>

Raise(ch, v) ==
  /\ calc.phase = "out"
  /\ calc[ch].t = "number"
  /\ v.t = "number"
  /\ v.n > calc[ch].n
  /\ LET c == [calc EXCEPT ![ch] = v]
     IN calc' = [c EXCEPT !.out = AlertLevelOf(c),
                          !.prev = calc.out.alertLevel]
  /\ UNCHANGED <<now, req, readings, devices, subs, devVer, alerts, users>>

NextClassify ==
  \/ Classify
  \/ \E ch \in Channels : \E v \in ValuesOf(ch) : Raise(ch, v)

SpecClassify == InitClassify /\ [][NextClassify]_vars

(***************************************************************************)
(* POST /alert and getUserPhone (part_000 lines 61-82 and 257-283), on     *)
(* their own: the route shares no state with POST /sensors.                *)
(***************************************************************************)
AlertBody(uid, message, deviceId) ==
  [uid |-> uid, message |-> message, deviceId |-> deviceId]

AlertBodies ==
  { AlertBody(uid, message, deviceId) :
      uid \in {Undefined, Str(""), Str("u1"), Str("u2"), Str("u3"), Str("u4"),
               Str("u5")},
      message \in {Undefined, Str(""), Str("abc")},
      deviceId \in {Undefined, Str(DefaultDevice)} }

\* !v on a string or undefined: undefined and "" are falsy.
Falsy(v) == v = Undefined \/ v = JsNull \/ v = Str("")

\* Line 260.
MissingUidOrMessage(body) == Falsy(body.uid) \/ Falsy(body.message)

Err400Alert == [status |-> 400, error |-> "Missing uid or message"]
Err404Alert == [status |-> 404, error |-> "User phone not found"]
Err500Alert == [status |-> 500, error |-> "Failed to send SMS"]
Ok200Alert(phone) == [status |-> 200, success |-> TRUE, sentTo |-> phone]

AlertAnswered(q, resp) == [q EXCEPT !.pc = "done", !.resp = resp]

\* Lines 258-264: destructuring, the check of uid and message, and the
\* lookup of the user's document is issued.  Requests are numbered in
\* their order of arrival.
AlertReceive(a, body) ==
  /\ alerts[a].pc = "idle"
  /\ \A p \in Alerts : p < a => alerts[p].pc # "idle"
  /\ IF MissingUidOrMessage(body)
       THEN alerts' = [alerts EXCEPT ![a] =
                         AlertAnswered([@ EXCEPT !.body = body], Err400Alert)]
       ELSE alerts' = [alerts EXCEPT ![a] =
                         [@ EXCEPT !.pc = "lookup", !.body = body,
                                   !.nLookup = @ + 1]]
  /\ UNCHANGED <<now, req, readings, devices, subs, devVer, calc, users>>

\* Mutant: any phone number on file is returned.
getUserPhoneAnyNumber(dir, uid) ==
  IF uid \notin DOMAIN dir
    THEN JsNull
    ELSE IF dir[uid].phoneNumber.t = "chars"
           THEN dir[uid].phoneNumber ELSE JsNull

\* Lines 65-77: no document, or a phone number that is missing, empty or
\* without a leading "+", gives null.
getUserPhone(dir, uid) ==
  IF uid \notin DOMAIN dir
    THEN JsNull
    ELSE IF ~StartsWithPlus(dir[uid].phoneNumber)
           THEN JsNull
           ELSE dir[uid].phoneNumber

\* Lines 264-275: the lookup returned; without a phone the answer is 404,
\* otherwise the one send is issued.
AlertLookedUp(a, phone) ==
  IF phone = JsNull
    THEN alerts' = [alerts EXCEPT ![a] = AlertAnswered(@, Err404Alert)]
    ELSE alerts' = [alerts EXCEPT ![a] =
                      [@ EXCEPT !.pc = "send", !.phone = phone,
                                !.nSend = @ + 1]]

\* Line 63 resolved.
UserGetResolve(a) ==
  /\ alerts[a].pc = "lookup"
  /\ AlertLookedUp(a, getUserPhone(users, alerts[a].body.uid.s))
  /\ UNCHANGED <<now, req, readings, devices, subs, devVer, calc, users>>

\* Lines 78-81: the read rejected; getUserPhone logs and returns null.
UserGetReject(a) ==
  /\ alerts[a].pc = "lookup"
  /\ alerts' = [alerts EXCEPT ![a] =
                  AlertAnswered([@ EXCEPT !.lookupFailed = TRUE], Err404Alert)]
  /\ UNCHANGED <<now, req, readings, devices, subs, devVer, calc, users>>

\* Lines 271-278: the send succeeded.
AlertSendResolve(a) ==
  /\ alerts[a].pc = "send"
  /\ alerts' = [alerts EXCEPT ![a] =
                  AlertAnswered(@, Ok200Alert(alerts[a].phone))]
  /\ UNCHANGED <<now, req, readings, devices, subs, devVer, calc, users>>

\* Lines 279-282: the send failed.
AlertSendReject(a) ==
  /\ alerts[a].pc = "send"
  /\ alerts' = [alerts EXCEPT ![a] = AlertAnswered(@, Err500Alert)]
  /\ UNCHANGED <<now, req, readings, devices, subs, devVer, calc, users>>

\* The alert state of the devices while /alert requests run: absent, or an
\* alert sent at the start.
InitAlert ==
  /\ now = StartTime
  /\ req = [r \in Reqs |-> IdleReq]
  /\ readings = [d \in ReadingPaths |-> <<>>]
  /\ devices \in {[d \in Devices |-> Undefined],
                  [d \in Devices |-> [lastAlertSent |-> StartTime]]}
  /\ subs \in Directories
  /\ devVer = [d \in Devices |-> 0]
  /\ calc = NoCalc
  /\ alerts = [a \in Alerts |-> IdleAlert]
  /\ users = UserDirectory

NextAlert ==
  \/ \E a \in Alerts : \E body \in AlertBodies : AlertReceive(a, body)
  \/ \E a \in Alerts : UserGetResolve(a)
  \/ \E a \in Alerts : UserGetReject(a)
  \/ \E a \in Alerts : AlertSendResolve(a)
  \/ \E a \in Alerts : AlertSendReject(a)

SpecAlert == InitAlert /\ [][NextAlert]_vars

(***************************************************************************)
(* Properties.                                                             *)
(***************************************************************************)
IsDone(q) == q.pc = "done"
Alerting(q) == q.alertLevel >= 2
GateChecked(q) == q.elapsed >= 0
SawCooling(q) == GateChecked(q) /\ q.elapsed < cooldownMinutes
SawArmed(q) == GateChecked(q) /\ q.elapsed >= cooldownMinutes
\* The subscriber listing has come back to the request.
ListingBack(q) == q.pc \in {"sending", "set"} \/ (IsDone(q) /\ q.nList = 1 /\ q.failed # "list")
\* No call of the request's has rejected.
NoCallRejected(q) == q.failed = "none"
\* The subscribers of a device whose phone number begins with "+".
PlusSubscribers(d) ==
  {i \in 1..Len(subs[d]) :
     /\ subs[d][i].phoneNumber.t = "chars"
     /\ Len(subs[d][i].phoneNumber.cs) > 0
     /\ subs[d][i].phoneNumber.cs[1] = "+"}
NoAlertEffects(q) ==
  q.nList = 0 /\ q.nSet = 0 /\ q.sendsIssued = 0 /\ q.setVer = 0

\* C1: a request of level >= 2 that finds less than the cooldown window
\* elapsed since the device's last alert issues no subscriber listing and no
\* send, does not write lastAlertSent, and answers 200 with sms_sent_count 0.
C1_CooldownSuppression ==
  \A r \in Reqs :
    SawCooling(req[r]) =>
      /\ IsDone(req[r])
      /\ Alerting(req[r])
      /\ NoAlertEffects(req[r])
      /\ req[r].resp.status = 200
      /\ req[r].resp.sms_sent_count = 0

\* C1 witness: an alert was written for the device and a later request of
\* level >= 2 was suppressed.
C1_Witness ==
  \E r \in Reqs :
    /\ SawCooling(req[r])
    /\ req[r].resp.status = 200
    /\ req[r].snapVer >= 1
    /\ devices[req[r].device_id] # Undefined

\* C2: a request of level >= 2 that finds no alert record, or at least the
\* cooldown window elapsed (exactly the window included), requests the
\* subscriber list, and once the list is back it has issued one send to
\* every subscriber whose phone number begins with "+".
C2_ArmedDispatch ==
  \A r \in Reqs :
    /\ (GateChecked(req[r]) /\ req[r].snapVer = 0) => SawArmed(req[r])
    /\ SawArmed(req[r]) =>
         /\ Alerting(req[r])
         /\ req[r].nList = 1
         /\ ListingBack(req[r]) =>
              req[r].sendsIssued = Cardinality(PlusSubscribers(req[r].device_id))
         /\ req[r].pc \in {"sending", "set"} =>
              \A i \in PlusSubscribers(req[r].device_id) :
                req[r].smsPromises[i] # "none"

\* C2 witness: exactly the cooldown window had elapsed and the sends went
\* out.
C2_Witness ==
  \E r \in Reqs :
    /\ req[r].elapsed = cooldownMinutes
    /\ req[r].snapVer >= 1
    /\ req[r].pc = "sending"
    /\ req[r].sendsIssued = 3

\* C3 as claimed: every request that passed the cooldown check and ran the
\* fan-out step with no call rejecting has set lastAlertSent by its end,
\* the empty subscriber list included.
C3_AsClaimed ==
  \A r \in Reqs :
    (IsDone(req[r]) /\ SawArmed(req[r]) /\ NoCallRejected(req[r])) =>
      /\ req[r].setVer >= 1
      /\ devices[req[r].device_id] # Undefined

\* C3 amended: a request that passed the cooldown check and whose subscriber
\* list came back non-empty issues one write of lastAlertSent once all its
\* sends have settled, however many of them succeeded (all failed and none
\* eligible included); the write, when it commits, stores the time of the
\* write, and when it is rejected the request answers 500 and has written
\* nothing.  When the list came back empty the request issues no write.
C3_CooldownTracksAttempt ==
  /\ \A r \in Reqs :
       (IsDone(req[r]) /\ SawArmed(req[r]) /\ ListingBack(req[r])) =>
         /\ req[r].listed > 0 =>
              /\ req[r].nSet = 1
              /\ req[r].failed \in {"none", "set"}
              /\ req[r].failed = "none" =>
                   /\ req[r].setVer >= 1
                   /\ req[r].setAt >= req[r].dispatchedAt
                   /\ devices[req[r].device_id] # Undefined
                   /\ devices[req[r].device_id].lastAlertSent >= req[r].setAt
              /\ req[r].failed = "set" =>
                   (req[r].setVer = 0 /\ req[r].resp.status = 500)
         /\ req[r].listed = 0 => (req[r].nSet = 0 /\ req[r].setVer = 0)
  /\ \A r \in Reqs :
       (req[r].setVer >= 1 /\ req[r].setVer = devVer[req[r].device_id]) =>
         devices[req[r].device_id].lastAlertSent = req[r].setAt
  /\ \A r \in Reqs : req[r].pc = "set" => Settled(req[r])

\* C3 witness: one request wrote lastAlertSent with no eligible subscriber,
\* another with its every send failed.
C3_Witness ==
  \E r1, r2 \in Reqs :
    /\ IsDone(req[r1]) /\ req[r1].setVer >= 1
    /\ req[r1].listed > 0 /\ req[r1].sendsIssued = 0
    /\ IsDone(req[r2]) /\ req[r2].setVer >= 1
    /\ req[r2].sendsIssued >= 1 /\ req[r2].sendsFailed = req[r2].sendsIssued

Apart(a, b) == IF a >= b THEN a - b ELSE b - a

\* C4: two requests for one device dispatch SMS less than a cooldown window
\* apart only by the race: each of them read the device's alert state before
\* the other's write of it was committed.
C4_DoubleDispatchOnlyByRace ==
  \A r1, r2 \in Reqs :
    ( /\ r1 # r2
      /\ req[r1].device_id = req[r2].device_id
      /\ req[r1].sendsIssued >= 1
      /\ req[r2].sendsIssued >= 1
      /\ Apart(req[r1].dispatchedAt, req[r2].dispatchedAt) < cooldownMinutes
      /\ req[r2].setVer >= 1 )
    => (SawArmed(req[r1]) /\ SawArmed(req[r2]) /\ req[r1].snapVer < req[r2].setVer)

\* C4 witness: two requests for one device both saw the gate armed, both
\* sent to the same subscribers at the same minute, and both writes were
\* committed.
C4_Witness ==
  \E r1, r2 \in Reqs :
    /\ r1 # r2
    /\ req[r1].device_id = req[r2].device_id
    /\ SawArmed(req[r1]) /\ SawArmed(req[r2])
    /\ req[r1].sendsIssued >= 1 /\ req[r2].sendsIssued = req[r1].sendsIssued
    /\ req[r1].sendsOk >= 1 /\ req[r2].sendsOk >= 1
    /\ Apart(req[r1].dispatchedAt, req[r2].dispatchedAt) < cooldownMinutes
    /\ req[r1].setVer >= 1 /\ req[r2].setVer >= 1

\* C5 as claimed: every request that ran a fan-out answers 200 with
\* sms_sent_count equal to the number of sends that succeeded.
C5_AsClaimed ==
  \A r \in Reqs :
    (IsDone(req[r]) /\ req[r].sendsIssued >= 1) =>
      /\ req[r].resp.status = 200
      /\ req[r].resp.sms_sent_count = req[r].sendsOk

\* C5 amended: a failed send neither cancels another send nor fails the
\* request: the counter equals the number of sends that succeeded, every
\* send issued is settled when the request answers, and the answer is 200
\* with that number (at most the number of eligible subscribers), unless the
\* write of lastAlertSent that follows the fan-out is rejected, and then it
\* is 500.
C5_FanOutIsolation ==
  \A r \in Reqs :
    /\ req[r].pc \in {"sending", "set"} =>
         req[r].smsCount = Count(req[r], "fulfilled")
    /\ (IsDone(req[r]) /\ req[r].sendsIssued >= 1) =>
         /\ req[r].sendsOk + req[r].sendsFailed = req[r].sendsIssued
         /\ req[r].failed \in {"none", "set"}
         /\ req[r].failed = "set" => req[r].resp.status = 500
         /\ req[r].failed = "none" =>
              /\ req[r].resp.status = 200
              /\ req[r].resp.sms_sent_count = req[r].sendsOk
              /\ req[r].resp.sms_sent_count
                   <= Cardinality(PlusSubscribers(req[r].device_id))

\* C5 witness: three sends, one failed, the answer is 200 with 2.
C5_Witness ==
  \E r \in Reqs :
    /\ IsDone(req[r])
    /\ req[r].sendsIssued = 3
    /\ req[r].sendsFailed = 1
    /\ req[r].resp.status = 200
    /\ req[r].resp.sms_sent_count = 2

\* The readings stored for a device are those of the requests whose push
\* resolved.
StoredMatchesPushes ==
  \A d \in ReadingPaths :
    Len(readings[d]) =
      Cardinality({r \in Reqs : /\ req[r].device_id = d
                                /\ req[r].nPush = 1
                                /\ req[r].pc # "push"
                                /\ req[r].failed # "push"})

\* C6: a request with no soil-moisture field is answered 400 and does
\* nothing else (no alert level, no push, no read or write of the alert
\* state, no listing, no send); a request with at least one soil-moisture
\* field, whatever its value, is not answered 400 and its push is issued.
C6_ValidationShortCircuit ==
  /\ \A r \in Reqs :
       /\ req[r].nSoil = 0 =>
            /\ IsDone(req[r])
            /\ req[r].resp.status = 400
            /\ req[r].alertLevel = 0
            /\ req[r].nPush = 0 /\ req[r].nGet = 0
            /\ NoAlertEffects(req[r])
       /\ req[r].nSoil >= 1 =>
            /\ req[r].resp.status # 400
            /\ req[r].nPush = 1
            /\ req[r].alertLevel >= 1
  /\ StoredMatchesPushes

\* C6 witness: one request was refused with 400, another whose only soil
\* field is 0 was accepted and answered 200.
C6_Witness ==
  \E r1, r2 \in Reqs :
    /\ req[r1].resp.status = 400
    /\ req[r2].nSoil = 1
    /\ req[r2].resp.status = 200
    /\ \E i \in 1..Len(readings[req[r2].device_id]) :
         readings[req[r2].device_id][i].soil_moisture_2 = Num(0)

\* C7: a request whose push of the reading is rejected answers 500 and runs
\* no later step: it has issued that one push and nothing else, and the
\* store holds no reading of it.
C7_StoreFailureAborts ==
  /\ \A r \in Reqs :
       /\ req[r].nPush <= 1
       /\ req[r].failed = "push" =>
            /\ IsDone(req[r])
            /\ req[r].resp.status = 500
            /\ req[r].nPush = 1 /\ req[r].nGet = 0
            /\ NoAlertEffects(req[r])
            /\ ~GateChecked(req[r])
  /\ StoredMatchesPushes

\* C7 witness: the push of a reading of level >= 2 was rejected.
C7_Witness ==
  \E r \in Reqs :
    /\ req[r].failed = "push"
    /\ Alerting(req[r])
    /\ req[r].resp.status = 500

\* The conditions of the calculation, as the specification lists them.
IndicatorConditions(c) ==
  {k \in {"sm1>60", "sm2>65", "sm3>65", "tilt>2", "vib>0.03"} :
     \/ k = "sm1>60" /\ Gt(c.sm1, 60)
     \/ k = "sm2>65" /\ Gt(c.sm2, 65)
     \/ k = "sm3>65" /\ Gt(c.sm3, 65)
     \/ k = "tilt>2" /\ Gt(c.tiltDeg, 2)
     \/ k = "vib>0.03" /\ Gt(c.vibG, 3)}

CriticalConditions(c) ==
  {k \in {"soil", "tilt+vib", "soil+tilt", "vib"} :
     \/ k = "soil" /\ Gt(c.sm1, 75) /\ Gt(c.sm2, 80) /\ Gt(c.sm3, 85)
     \/ k = "tilt+vib" /\ Gt(c.tiltDeg, 5) /\ Gt(c.vibG, 8)
     \/ k = "soil+tilt" /\ Gt(c.sm1, 75) /\ Gt(c.tiltDeg, 5)
     \/ k = "vib" /\ Gt(c.vibG, 20)}

Triggered(c) == IndicatorConditions(c) \cup CriticalConditions(c)

ExpectedResult(c) ==
  IF CriticalConditions(c) # {}
    THEN [alertLevel |-> 3, alertMessage |-> "Critical - Imminent Failure"]
    ELSE IF Cardinality(IndicatorConditions(c)) >= 3
           THEN [alertLevel |-> 2, alertMessage |-> "Intermediate Warning"]
           ELSE [alertLevel |-> 1, alertMessage |-> "Normal but Monitored"]

\* C8: the calculated level and message are Critical (3) when any critical
\* condition holds, whatever the indicator count; otherwise Warning (2) when
\* at least three indicators hold; otherwise Normal (1).
C8_ClassifierResult ==
  calc.phase = "out" => calc.out = ExpectedResult(calc)

\* C8 witness: a reading with one indicator and a critical condition was
\* classified Critical.
C8_Witness ==
  /\ calc.phase = "out"
  /\ Cardinality(IndicatorConditions(calc)) = 1
  /\ calc.out.alertLevel = 3

\* Readings that cover every region of every channel.
RegionInputs ==
  [sm1 : {Num(0), Num(61), Num(76)}, sm2 : {Num(0), Num(66), Num(81)},
   sm3 : {Num(0), Num(66), Num(86)}, tiltDeg : {Num(0), Num(3), Num(6)},
   vibG : {Num(0), Num(4), Num(9), Num(21)}]

\* C9: a reading that triggers every condition another reading triggers has
\* a level at least as high, and raising one value of a reading never
\* lowers its level.
C9_TierMonotonic ==
  /\ (calc.phase = "out" /\ calc.prev = 0) =>
       \A b \in RegionInputs :
         /\ Triggered(calc) \subseteq Triggered(b) =>
              calc.out.alertLevel <= AlertLevelOf(b).alertLevel
         /\ Triggered(b) \subseteq Triggered(calc) =>
              AlertLevelOf(b).alertLevel <= calc.out.alertLevel
  /\ calc.phase = "out" => calc.prev <= calc.out.alertLevel

\* C9 witness: raising one value took a reading from Warning to Critical.
C9_Witness ==
  /\ calc.phase = "out"
  /\ calc.prev = 2
  /\ calc.out.alertLevel = 3

\* C10: a request of level Normal issues no read of the alert state, no
\* subscriber listing, no send and no write of lastAlertSent; its one push
\* is issued, and unless the push is rejected it answers 200 with
\* sms_sent_count 0 and its reading is in the store.
C10_NormalBypassesGate ==
  /\ \A r \in Reqs :
       req[r].alertLevel = 1 =>
         /\ req[r].nPush = 1 /\ req[r].nGet = 0
         /\ ~GateChecked(req[r])
         /\ NoAlertEffects(req[r])
         /\ IsDone(req[r]) =>
              \/ req[r].failed = "push" /\ req[r].resp.status = 500
              \/ /\ req[r].failed = "none"
                 /\ req[r].resp.status = 200
                 /\ req[r].resp.sms_sent_count = 0
  /\ StoredMatchesPushes

\* C10 witness: a Normal reading was stored and answered 200 with count 0
\* while the device's alert state stayed absent.
C10_Witness ==
  \E r \in Reqs :
    /\ req[r].alertLevel = 1
    /\ req[r].resp.status = 200
    /\ \E i \in 1..Len(readings[req[r].device_id]) :
         readings[req[r].device_id][i].alert_level = 1

\* C11: in a fan-out a send is created for a subscriber exactly when its
\* phone number is present and begins with "+"; a subscriber with a missing
\* or other phone number gets no send, takes no send from the others (one
\* send per "+" subscriber is issued) and raises no error: once the list is
\* back, the only call of the request that can reject is the write of
\* lastAlertSent.
C11_EligibilityFilter ==
  \A r \in Reqs :
    /\ req[r].pc \in {"sending", "set"} =>
         /\ Len(req[r].smsPromises) = Len(subs[req[r].device_id])
         /\ \A i \in 1..Len(subs[req[r].device_id]) :
              (req[r].smsPromises[i] # "none")
                <=> (i \in PlusSubscribers(req[r].device_id))
    /\ (ListingBack(req[r]) /\ req[r].listed > 0) =>
         /\ req[r].sendsIssued + Cardinality({i \in 1..Len(subs[req[r].device_id]) :
                                               i \notin PlusSubscribers(req[r].device_id)})
              = req[r].listed
         /\ req[r].failed \in {"none", "set"}

\* C11 witness: of two subscribers listed, one without a leading "+", the one
\* send was made and the request answered 200 with sms_sent_count 1.
C11_Witness ==
  \E r \in Reqs :
    /\ IsDone(req[r])
    /\ req[r].listed = 2
    /\ req[r].sendsIssued = 1
    /\ req[r].resp.status = 200
    /\ req[r].resp.sms_sent_count = 1

\* The push of the request's reading has resolved.
PushResolved(q) == q.nPush = 1 /\ q.pc # "push" /\ q.failed # "push"

\* How many times a reading occurs in a log.
Occurrences(log, x) == Cardinality({i \in 1..Len(log) : log[i] = x})

\* C12: a request that passes validation issues exactly one push, of the
\* reading calculated from its body with its level and message; each push
\* that resolved has put that reading once into the log of the request's
\* device, whatever the level and the cooldown; the request reads the alert
\* state, lists subscribers and sends only when its push has resolved, and
\* answers 200 only then.
C12_StoreBeforeAck ==
  /\ \A r \in Reqs :
       req[r].nSoil >= 1 =>
         /\ req[r].nPush = 1
         /\ req[r].alertLevel = Reading(req[r].body).alert_level
         /\ (req[r].nGet >= 1 \/ req[r].nList >= 1 \/ req[r].sendsIssued >= 1
               \/ req[r].nSet >= 1 \/ GateChecked(req[r]))
              => PushResolved(req[r])
         /\ req[r].resp.status = 200 => PushResolved(req[r])
         /\ (IsDone(req[r]) /\ req[r].failed # "push") => PushResolved(req[r])
  /\ \A d \in ReadingPaths : \A b \in Bodies :
       Occurrences(readings[d], Reading(b)) =
         Cardinality({r \in Reqs : /\ req[r].device_id = d
                                   /\ PushResolved(req[r])
                                   /\ Reading(req[r].body) = Reading(b)})
  /\ \A d \in ReadingPaths :
       Len(readings[d]) =
         Cardinality({r \in Reqs : req[r].device_id = d /\ PushResolved(req[r])})

\* C12 witness: a Warning reading was stored although its alert was
\* suppressed by the cooldown, next to the reading that raised the alert.
C12_Witness ==
  \E r \in Reqs :
    /\ SawCooling(req[r])
    /\ req[r].resp.status = 200
    /\ Len(readings[req[r].device_id]) = 2
    /\ \A i \in 1..2 : readings[req[r].device_id][i].alert_level = 2

\* C13: within one request the subscribers are listed at most once and the
\* number of sends created never exceeds one per subscriber with a "+"
\* number; a send that has settled, failed or not, stays as it settled, and
\* the number of sends created does not change once the fan-out has begun.
C13_AtMostOnceNoRetry ==
  /\ [](\A r \in Reqs :
          /\ req[r].nList <= 1
          /\ req[r].nList = 0 => req[r].sendsIssued = 0
          /\ req[r].nList = 1 =>
               req[r].sendsIssued
                 <= Cardinality(PlusSubscribers(req[r].device_id))
          /\ req[r].pc \in {"sending", "set"} =>
               req[r].sendsIssued =
                 Count(req[r], "pending") + Count(req[r], "fulfilled")
                   + Count(req[r], "rejected"))
  /\ [][\A r \in Reqs :
          req[r].pc \in {"sending", "set", "done"} =>
            /\ req'[r].sendsIssued = req[r].sendsIssued
            /\ req'[r].nList = req[r].nList
            /\ req'[r].pc \in {"sending", "set"} =>
                 \A i \in DOMAIN req[r].smsPromises :
                   req[r].smsPromises[i] # "pending" =>
                     req'[r].smsPromises[i] = req[r].smsPromises[i]]_vars

\* C13 witness: the one send of a request failed and the request answered
\* 200 with sms_sent_count 0, one send created in all.
C13_Witness ==
  \E r \in Reqs :
    /\ IsDone(req[r])
    /\ req[r].sendsIssued = 1
    /\ req[r].sendsFailed = 1
    /\ req[r].resp.status = 200
    /\ req[r].resp.sms_sent_count = 0

\* The user of a uid has a phone number on file that begins with "+".
HasPlusPhone(uid) ==
  /\ uid \in DOMAIN users
  /\ users[uid].phoneNumber.t = "chars"
  /\ Len(users[uid].phoneNumber.cs) > 0
  /\ users[uid].phoneNumber.cs[1] = "+"

MissingField(v) == v = Undefined \/ v = Str("")

\* C14: a /alert request without uid or message answers 400 with no lookup
\* and no send; one whose lookup fails, or whose uid has no document, no
\* phone number or a number without a leading "+", answers 404 with no
\* send; any other issues exactly one send, to the number on file, and
\* answers 200 with sentTo that number when the send succeeds and 500 when
\* it fails.  No step of /alert changes the devices' alert state, the
\* readings or the /sensors requests.
C14_AlertOutcomes ==
  /\ [](\A a \in Alerts :
          alerts[a].pc # "idle" =>
            LET q == alerts[a]
                missing == MissingField(q.body.uid) \/ MissingField(q.body.message)
            IN /\ missing =>
                    /\ q.pc = "done" /\ q.resp.status = 400
                    /\ q.nLookup = 0 /\ q.nSend = 0
               /\ ~missing =>
                    /\ q.nLookup = 1
                    /\ q.resp.status # 400
                    /\ (q.lookupFailed \/ ~HasPlusPhone(q.body.uid.s)) =>
                         /\ q.nSend = 0
                         /\ q.pc = "done" => q.resp.status = 404
                    /\ (q.pc = "done" /\ ~q.lookupFailed
                          /\ HasPlusPhone(q.body.uid.s)) =>
                         /\ q.nSend = 1
                         /\ q.resp.status \in {200, 500}
                         /\ q.resp.status = 200 =>
                              q.resp.sentTo = users[q.body.uid.s].phoneNumber
                    /\ q.pc = "send" =>
                         /\ q.nSend = 1
                         /\ q.phone = users[q.body.uid.s].phoneNumber
                         /\ HasPlusPhone(q.body.uid.s))
  /\ [][/\ devices' = devices /\ devVer' = devVer
        /\ readings' = readings /\ req' = req]_vars

\* C14 witness: with an alert on record for the named device, one /alert
\* request was answered 200 and another, for a user with a local number,
\* 404.
C14_Witness ==
  \E a1, a2 \in Alerts :
    /\ alerts[a1].resp.status = 200
    /\ alerts[a1].resp.sentTo = PhoneA
    /\ alerts[a1].body.deviceId = Str(DefaultDevice)
    /\ devices[DefaultDevice] # Undefined
    /\ alerts[a2].resp.status = 404
    /\ alerts[a2].body.uid = Str("u2")

\* The body carries tilt 6 degrees and vibration 0.10 g.
TiltSixVibTenth(body) == body.tilt = Num(6) /\ body.vibration = Num(10)

\* C15 as claimed: the request body {tilt: 6, vibration: 0.1}, no soil
\* field in it, comes out Critical with the message "Critical - Imminent
\* Failure".
C15_AsClaimed ==
  \A r \in Reqs :
    (IsDone(req[r]) /\ req[r].body = BodyNoSoil) =>
      /\ req[r].alertLevel = 3
      /\ req[r].alertMessage = "Critical - Imminent Failure"

\* C15 amended: tilt 6 and vibration 0.10 g make the tilt-and-vibration
\* critical condition true, and a request carrying them with at least one
\* soil field present (0 included) is Critical with the message "Critical -
\* Imminent Failure", stored and answered so; with no soil field the
\* request is answered 400 and no level is calculated.
C15_TiltVibrationScenario ==
  \A r \in Reqs :
    (req[r].pc # "idle" /\ TiltSixVibTenth(req[r].body)) =>
      /\ req[r].nSoil = 0 =>
           /\ req[r].resp.status = 400
           /\ req[r].alertLevel = 0 /\ req[r].alertMessage = ""
           /\ req[r].nPush = 0
      /\ req[r].nSoil >= 1 =>
           /\ req[r].alertLevel = 3
           /\ req[r].alertMessage = "Critical - Imminent Failure"
           /\ req[r].pc = "push" =>
                /\ req[r].reading.alert_level = 3
                /\ req[r].reading.soil_moisture_1 = Num(0)
                /\ req[r].reading.soil_moisture_2 = Num(0)
                /\ req[r].reading.soil_moisture_3 = Num(0)
           /\ req[r].resp.status = 200 =>
                /\ req[r].resp.alert_level = 3
                /\ req[r].resp.alert_message = "Critical - Imminent Failure"

\* C15 witness: the body without a soil field was answered 400 and the one
\* with soil_moisture_1 = 0 was answered 200 as Critical.
C15_Witness ==
  \E r1, r2 \in Reqs :
    /\ req[r1].body = BodyNoSoil
    /\ req[r1].resp.status = 400
    /\ req[r2].body = BodyTiltVib
    /\ req[r2].resp.status = 200
    /\ req[r2].resp.alert_level = 3

SoilFieldNames == {"soil_moisture_1", "soil_moisture_2", "soil_moisture_3"}

\* C16: in the reading a request is about to store, every soil field absent
\* from the body is null, every soil field present is its numeric value, and
\* the level is the one calculated with 0 for the absent fields.
C16_AbsentSoilStoredNull ==
  \A r \in Reqs :
    req[r].pc = "push" =>
      /\ \A k \in SoilFieldNames :
           /\ req[r].body[k] = Undefined => req[r].reading[k] = JsNull
           /\ req[r].body[k] # Undefined =>
                req[r].reading[k] = OrZero(Number(req[r].body[k]))
      /\ req[r].reading.alert_level =
           AlertLevel(OrZero(Number(req[r].body.soil_moisture_1)),
                      OrZero(Number(req[r].body.soil_moisture_2)),
                      OrZero(Number(req[r].body.soil_moisture_3)),
                      Number(DefaultZero(req[r].body.tilt)),
                      Number(DefaultZero(req[r].body.vibration))).alertLevel

\* C17: an accepted request whose device_id is absent or the empty string
\* works on the placeholder device "ESP32_001" (the reading it stores and
\* the log it stores it in, the alert state and the subscribers it reads);
\* any other device_id is used as it stands.
C17_DeviceIdDefault ==
  /\ \A r \in Reqs :
       req[r].nSoil >= 1 =>
         /\ req[r].body.device_id \in {Undefined, Str("")} =>
              /\ req[r].device_id = DefaultDevice
              /\ req[r].pc = "push" => req[r].reading.device_id = DefaultDevice
         /\ req[r].body.device_id \notin {Undefined, Str("")} =>
              req[r].device_id = req[r].body.device_id.s
  /\ \A d \in ReadingPaths : \A i \in 1..Len(readings[d]) :
       /\ d # ""
       /\ readings[d][i].device_id = d

\* C18: the write of lastAlertSent is issued, and commits, only when every
\* send the request created has settled, and a request that created sends
\* answers only from the write, committed or rejected, with no send left
\* pending; its 200 answer comes after the write has committed.
C18_FanOutBeforeGateUpdate ==
  /\ [](\A r \in Reqs :
          /\ req[r].pc = "set" =>
               (Count(req[r], "pending") = 0 /\ req[r].nSet = 1)
          /\ req[r].pc = "sending" => req[r].nSet = 0
          /\ (IsDone(req[r]) /\ req[r].sendsIssued >= 1) =>
               /\ req[r].nSet = 1
               /\ req[r].sendsOk + req[r].sendsFailed = req[r].sendsIssued
               /\ req[r].resp.status = 200 =>
                    (req[r].setVer >= 1 /\ req[r].setAt >= req[r].dispatchedAt))
  /\ [][\A r \in Reqs :
          /\ req'[r].nSet # req[r].nSet =>
               (req[r].pc = "sending" /\ Count(req[r], "pending") = 0)
          /\ req'[r].setVer # req[r].setVer =>
               (req[r].pc = "set" /\ Count(req[r], "pending") = 0)
          /\ (req[r].sendsIssued >= 1 /\ ~IsDone(req[r]) /\ IsDone(req'[r])) =>
               (req[r].pc = "set" /\ Count(req[r], "pending") = 0)]_vars

\* C18 witness: three sends, two of them failed, time passed while they were
\* out, and the write committed later than the dispatch before the 200.
C18_Witness ==
  \E r \in Reqs :
    /\ IsDone(req[r])
    /\ req[r].sendsIssued = 3
    /\ req[r].sendsFailed = 2
    /\ req[r].setVer >= 1
    /\ req[r].setAt > req[r].dispatchedAt
    /\ req[r].resp.status = 200

\* Every request arrived when no other request was in progress.
OneAtATime == \A r \in Reqs : req[r].pc # "idle" => req[r].alone

\* C19: when the requests are handled one at a time and no write of
\* lastAlertSent is rejected, two requests for one device that each created
\* at least one send dispatched at least a cooldown window apart, and the
\* later of them read the alert state the earlier one wrote.
C19_SequentialSpacing ==
  OneAtATime =>
    \A r1, r2 \in Reqs :
      ( /\ r1 < r2
        /\ req[r1].device_id = req[r2].device_id
        /\ req[r1].sendsIssued >= 1
        /\ req[r2].sendsIssued >= 1
        /\ req[r1].failed # "set" )
      => /\ req[r2].dispatchedAt - req[r1].dispatchedAt >= cooldownMinutes
         /\ req[r2].snapVer >= req[r1].setVer
         /\ req[r1].setVer >= 1
         /\ req[r2].elapsed >= cooldownMinutes

\* C19 witness: the second request arrived after the first had answered,
\* exactly a cooldown window after the first one's dispatch and write, and
\* dispatched too.
C19_Witness ==
  \E r1, r2 \in Reqs :
    /\ r1 < r2
    /\ OneAtATime
    /\ req[r1].device_id = req[r2].device_id
    /\ req[r1].sendsIssued >= 1 /\ req[r1].setVer >= 1
    /\ IsDone(req[r2]) /\ req[r2].sendsIssued >= 1
    /\ req[r2].elapsed = cooldownMinutes
    /\ req[r2].dispatchedAt - req[r1].dispatchedAt = cooldownMinutes

\* C20 as claimed: a request answered 500 created no send; every request
\* that created a send is answered 200 and has written lastAlertSent.
C20_AsClaimed ==
  \A r \in Reqs :
    IsDone(req[r]) =>
      /\ req[r].resp.status = 500 => req[r].sendsIssued = 0
      /\ req[r].sendsIssued >= 1 =>
           (req[r].resp.status = 200 /\ req[r].setVer >= 1)

\* C20 amended: a request is answered 500 exactly when one of its awaited
\* calls was rejected: the push, the read of the alert state, the subscriber
\* listing or the write of lastAlertSent, never a send.  After a rejected
\* push, read or listing it has created no send and issued no write.  A
\* request that created a send is answered 500 only when its write of
\* lastAlertSent was rejected, with all its sends settled and nothing
\* written; otherwise it is answered 200 and has written lastAlertSent.
C20_ErrorResponseAndSends ==
  \A r \in Reqs :
    IsDone(req[r]) =>
      /\ req[r].failed \in {"none", "push", "get", "list", "set"}
      /\ (req[r].resp.status = 500) <=> (req[r].failed # "none")
      /\ req[r].failed \in {"push", "get", "list"} =>
           (req[r].sendsIssued = 0 /\ req[r].nSet = 0 /\ req[r].setVer = 0)
      /\ req[r].failed = "get" => (req[r].nList = 0 /\ ~GateChecked(req[r]))
      /\ req[r].sendsIssued >= 1 =>
           /\ req[r].sendsOk + req[r].sendsFailed = req[r].sendsIssued
           /\ req[r].failed = "set" =>
                (req[r].resp.status = 500 /\ req[r].setVer = 0)
           /\ req[r].failed # "set" =>
                /\ req[r].resp.status = 200
                /\ req[r].setVer >= 1
                /\ devices[req[r].device_id] # Undefined

\* C20 witness: a request sent SMS, at least one of them delivered, its
\* write of lastAlertSent was rejected and it answered 500, the device left
\* without an alert record.
C20_Witness ==
  \E r \in Reqs :
    /\ IsDone(req[r])
    /\ req[r].resp.status = 500
    /\ req[r].failed = "set"
    /\ req[r].sendsOk >= 1
    /\ devices[req[r].device_id] = Undefined

====
